---- MODULE Spec2Model ----
(***************************************************************************)
(* Model of the ultrafxr numeric kernel ufxr_sin1_2 (c/ops/sin1_2.c), its  *)
(* build-time selection between the SSE2 and the scalar definition, and    *)
(* the error codes of c/compiler/error.h.                                  *)
(*                                                                         *)
(* A float is modelled as an IEEE-754 binary32 value in sign/magnitude     *)
(* form: [sign, man, exp] stands for (-1)^sign * man * 2^exp, kept in the  *)
(* canonical form "man odd, or man = 0 and exp = 0", so that two records   *)
(* are equal exactly when the two floats have the same bits (+0.0 and -0.0 *)
(* are different records).  Every arithmetic operation rounds its exact    *)
(* result to 24 significant bits, ties to even.  The inputs of the model   *)
(* are far from the exponent limits, so overflow, subnormals, infinities   *)
(* and NaN do not occur and are not modelled.  The scalar version's float   *)
(* expressions are evaluated in binary32 (FLT_EVAL_METHOD 0).              *)
(***************************************************************************)
EXTENDS Integers, Sequences, FiniteSets

VARIABLES
    sse2,       \* the __SSE2__ feature macro of the build
    ndebug,     \* NDEBUG: TRUE in a release build (assert compiled out)
    HAVE_FUNC,  \* the HAVE_FUNC macro while the file is preprocessed
    defs,       \* the definitions of ufxr_sin1_2 the build compiled, in order
    pc,         \* "cpp6", "cpp24": preprocessing; "linkerr": no or two
                \* definitions; "idle": between calls; "assert", "loop":
                \* inside a call; "abort": assertion failed
    xs,         \* the caller's input array, index 0..len-1
    outs,       \* the caller's output array, index 0..len-1
    base,       \* offset of the current call's buffers in the arrays
    n,          \* parameter n of the current call
    i,          \* loop variable i of the current call
    red,        \* per index: local x after the phase-reduction subtraction
    fold,       \* per index: the value fed to the shaping formula
    wcount,     \* per index: number of stores during the current call
    oob,        \* the current call touched an index outside base..base+n-1
    ret,        \* the last call returned
    covered     \* indices of the windows of all returned calls

vars == <<sse2, ndebug, HAVE_FUNC, defs, pc, xs, outs, base, n, i,
          red, fold, wcount, oob, ret, covered>>

-----------------------------------------------------------------------------
(* Bounds of the model *)

\* inputs are multiples of 2^-FracBits
FracBits == 15
\* inputs span the periods -MaxPeriods .. MaxPeriods
MaxPeriods == 2
\* integer shifts k range over -MaxShift .. MaxShift
MaxShift == 2
\* the caller's arrays hold 1 .. MaxQuanta quanta
MaxQuanta == 2

-----------------------------------------------------------------------------
(* IEEE-754 binary32 arithmetic *)

\* significand width of binary32
FLT_MANT_DIG == 24

Pow2(k) == 2^k

Abs(v) == IF v < 0 THEN -v ELSE v

Min(a, b) == IF a <= b THEN a ELSE b

RECURSIVE BitLen(_)
BitLen(m) == IF m = 0 THEN 0 ELSE 1 + BitLen(m \div 2)

\* canonical form: strip trailing zero bits of the significand
RECURSIVE Norm(_, _, _)
Norm(s, m, e) ==
    IF m = 0 THEN [sign |-> s, man |-> 0, exp |-> 0]
    ELSE IF m % 2 = 0 THEN Norm(s, m \div 2, e + 1)
    ELSE [sign |-> s, man |-> m, exp |-> e]

\* round m * 2^e to FLT_MANT_DIG significant bits, ties to even
RoundF(s, m, e) ==
    IF BitLen(m) <= FLT_MANT_DIG THEN Norm(s, m, e)
    ELSE LET d == BitLen(m) - FLT_MANT_DIG
             q == m \div Pow2(d)
             r == m % Pow2(d)
             h == Pow2(d - 1)
             up == r > h \/ (r = h /\ q % 2 = 1)
         IN  Norm(s, IF up THEN q + 1 ELSE q, e + d)

\* the exponent two floats are aligned to
AlignExp(a, b) ==
    IF a.man = 0 THEN b.exp
    ELSE IF b.man = 0 THEN a.exp
    ELSE Min(a.exp, b.exp)

\* the signed integer a / 2^e, for e <= a.exp
Scaled(a, e) ==
    IF a.man = 0 THEN 0
    ELSE (IF a.sign = 1 THEN -1 ELSE 1) * a.man * Pow2(a.exp - e)

FNeg(a) == [a EXCEPT !.sign = 1 - a.sign]

\* a + b; an exact zero sum is +0.0 (round to nearest), except that the sum
\* of two zeros of the same sign keeps that sign
FAdd(a, b) ==
    LET e == AlignExp(a, b)
        v == Scaled(a, e) + Scaled(b, e)
    IN  IF v = 0
        THEN [sign |-> IF a.sign = b.sign THEN a.sign ELSE 0, man |-> 0, exp |-> 0]
        ELSE RoundF(IF v < 0 THEN 1 ELSE 0, Abs(v), e)

FSub(a, b) == FAdd(a, FNeg(b))

FMul(a, b) ==
    RoundF(IF a.sign = b.sign THEN 0 ELSE 1, a.man * b.man, a.exp + b.exp)

\* the comparisons of C: -0.0 and +0.0 compare equal
FLt(a, b) == LET e == AlignExp(a, b) IN Scaled(a, e) < Scaled(b, e)

FEq(a, b) == LET e == AlignExp(a, b) IN Scaled(a, e) = Scaled(b, e)

FLe(a, b) == FLt(a, b) \/ FEq(a, b)

\* the float of an integer
IntToFloat(v) == RoundF(IF v < 0 THEN 1 ELSE 0, Abs(v), 0)

\* the float v / 2^FracBits
Fx(v) == RoundF(IF v < 0 THEN 1 ELSE 0, Abs(v), -FracBits)


-----------------------------------------------------------------------------
(* Conversions between float and 32-bit int *)

\* mutant of CvtPsEpi32: the truncating conversion _mm_cvttps_epi32
CvtPsEpi32Trunc(a) ==
    (IF a.sign = 1 THEN -1 ELSE 1) *
        (IF a.exp >= 0 THEN a.man * Pow2(a.exp) ELSE a.man \div Pow2(-a.exp))

\* _mm_cvtps_epi32: float to int, rounding to nearest, ties to even (the
\* default MXCSR rounding mode)
CvtPsEpi32(a) ==
    LET sg == IF a.sign = 1 THEN -1 ELSE 1
    IN  IF a.exp >= 0 THEN sg * a.man * Pow2(a.exp)
        ELSE LET d == -a.exp
                 q == a.man \div Pow2(d)
                 r == a.man % Pow2(d)
                 h == Pow2(d - 1)
                 up == r > h \/ (r = h /\ q % 2 = 1)
             IN  sg * (IF up THEN q + 1 ELSE q)

\* _mm_cvtepi32_ps: int to float
CvtEpi32Ps(v) == IntToFloat(v)

\* mutant of FloatToInt: rounding toward minus infinity, as floorf does
FloatToIntFloor(a) ==
    IF a.exp >= 0 THEN (IF a.sign = 1 THEN -1 ELSE 1) * a.man * Pow2(a.exp)
    ELSE IF a.sign = 1 THEN -((a.man \div Pow2(-a.exp)) + 1)
    ELSE a.man \div Pow2(-a.exp)

\* the C cast (int)x: truncation toward zero
FloatToInt(a) ==
    LET sg == IF a.sign = 1 THEN -1 ELSE 1
    IN  IF a.exp >= 0 THEN sg * a.man * Pow2(a.exp)
        ELSE sg * (a.man \div Pow2(-a.exp))

-----------------------------------------------------------------------------
(* The kernels *)

\* ops.h: the quantum every batch length is a multiple of
UFXR_QUANTUM == 4

\* mutant of AndPsAbs: an all-ones mask, which keeps the sign bit
AndPsAbsAllOnes(a) == a

\* const __m128 abs: the mask 0x7fffffff; _mm_and_ps(x, abs) clears the sign bit
AndPsAbs(a) == [a EXCEPT !.sign = 0]

\* mutant of Fabsf: the absolute value left out
FabsfOmitted(a) == a

\* fabsf
Fabsf(a) == [a EXCEPT !.sign = 0]

\* _mm_set1_ps(8.0f), and the literal 8.0f of the scalar version
c2 == IntToFloat(8)

\* mutant of c3: the constant of c2 repeated
c3AsC2 == IntToFloat(8)

\* _mm_set1_ps(16.0f), and the literal 16.0f of the scalar version
c3 == IntToFloat(16)

\* the literals 0.5f and -0.5f
Half == RoundF(0, 1, -1)

NegHalf == RoundF(1, 1, -1)

\* one lane of the body of the SSE2 loop (lines 15..18)
SseLane(x0) ==
    LET x1 == FSub(x0, CvtEpi32Ps(CvtPsEpi32(x0)))
        x2 == FMul(x1, FSub(c2, FMul(c3, AndPsAbs(x1))))
    IN  [red |-> x1, fold |-> x1, out |-> x2]

\* mutant of ScalarElem: the second fold (lines 35..36) left out
ScalarElemOneFold(x0) ==
    LET x1 == FSub(x0, IntToFloat(FloatToInt(x0)))
        t1 == FSub(Half, x1)
        x2 == IF FLt(t1, x1) THEN t1 ELSE x1
    IN  [red |-> x1, fold |-> x2,
         out |-> FMul(x2, FSub(c2, FMul(c3, Fabsf(x2))))]

\* the body of the scalar loop (lines 29..37)
ScalarElem(x0) ==
    LET x1 == FSub(x0, IntToFloat(FloatToInt(x0)))
        t1 == FSub(Half, x1)
        t2 == FSub(NegHalf, x1)
        x2 == IF FLt(t1, x1) THEN t1 ELSE x1
        x3 == IF FLt(x2, t2) THEN t2 ELSE x2
    IN  [red |-> x1, fold |-> x3,
         out |-> FMul(x3, FSub(c2, FMul(c3, Fabsf(x3))))]

\* i += 4 of the SSE2 loop, i++ of the scalar loop
SseStride == 4

ScalarStride == 1

\* the elements one __m128 load or store touches: xs + i .. xs + i + 3
SseWidth == 4

Kernel(impl, x0) == IF impl = "sse2" THEN SseLane(x0) ELSE ScalarElem(x0)

Stride(impl) == IF impl = "sse2" THEN SseStride ELSE ScalarStride

\* the indices of the caller's arrays one iteration loads and stores
Touched(impl, b, ii) ==
    IF impl = "sse2" THEN {b + ii + l : l \in 0 .. SseWidth - 1}
    ELSE {b + ii}

\* mutant of IterOuts: each element computed from the input one index up,
\* where the arrays have one
IterOutsNeighbour(impl, o, x, b, ii) ==
    [j \in DOMAIN o |->
        IF j \in Touched(impl, b, ii)
        THEN Kernel(impl, x[IF j + 1 \in DOMAIN x THEN j + 1 ELSE j]).out
        ELSE o[j]]

\* the output array after one iteration of the loop at i = ii
IterOuts(impl, o, x, b, ii) ==
    [j \in DOMAIN o |->
        IF j \in Touched(impl, b, ii) THEN Kernel(impl, x[j]).out ELSE o[j]]

\* for (i = ii; i < nn; i += stride): the output array when the loop ends
RECURSIVE RunLoop(_, _, _, _, _, _)
RunLoop(impl, o, x, b, nn, ii) ==
    IF ii < nn
    THEN RunLoop(impl, IterOuts(impl, o, x, b, ii), x, b, nn, ii + Stride(impl))
    ELSE o

\* mutant of AssertCond: the length checked against a quantum of two
AssertCondPair(nn) == (nn % 2) = 0

\* assert((n % UFXR_QUANTUM) == 0)
AssertCond(nn) == (nn % UFXR_QUANTUM) = 0

-----------------------------------------------------------------------------
(* The error codes of error.h *)

\* mutant of ErrEnum: ERR_OK no longer the first enumerator
ErrEnumReordered == <<"ERR_NOMEM", "ERR_OK", "ERR_LARGETEXT">>

\* enum { ERR_OK, ERR_NOMEM, ERR_LARGETEXT }: the enumerators, in order
ErrEnum == <<"ERR_OK", "ERR_NOMEM", "ERR_LARGETEXT">>

\* the value C gives an enumerator without initialiser: 0 for the first,
\* one more than its predecessor for every other
RECURSIVE EnumValueAt(_)
EnumValueAt(k) == IF k = 1 THEN 0 ELSE EnumValueAt(k - 1) + 1

EnumValue(name) ==
    EnumValueAt(CHOOSE k \in 1 .. Len(ErrEnum) : ErrEnum[k] = name)

ERR_OK == EnumValue("ERR_OK")

ERR_NOMEM == EnumValue("ERR_NOMEM")

ERR_LARGETEXT == EnumValue("ERR_LARGETEXT")

-----------------------------------------------------------------------------
(* The inputs *)

\* 1.0 in units of 2^-FracBits
One == Pow2(FracBits)

\* the content of a float that was never stored
Uninit == [sign |-> 2, man |-> 0, exp |-> 0]

\* the batch of the concrete scenario: [0.0, 0.25, 0.5, -0.25]
TestVec == <<Fx(0), Fx(One \div 4), Fx(One \div 2), Fx(-(One \div 4))>>

\* half-integers, quarter points and integers over several periods
EdgeVec == <<Fx(3 * (One \div 2)), Fx(-3 * (One \div 4)), Fx(5 * (One \div 2)), Fx(-One)>>

\* values next to the grid, whose products need rounding
FineVec == <<Fx(3 * (One \div 16) + 1), Fx(-One - 5 * (One \div 16) - 1),
             Fx(2 * One + 11 * (One \div 16) + 1), Fx(-(One \div 2) + 1)>>

Patterns == {TestVec, EdgeVec, FineVec}

\* the arrays of q quanta, each quantum one of the patterns
PatternArrays ==
    UNION {
        {[j \in 0 .. q * UFXR_QUANTUM - 1 |->
             ch[j \div UFXR_QUANTUM][(j % UFXR_QUANTUM) + 1]] :
         ch \in [0 .. q - 1 -> Patterns]} :
        q \in 1 .. MaxQuanta}

\* the sampled inputs, in units of 2^-FracBits: every sixteenth of a period
\* and its two neighbours on the grid
Samples ==
    {p * One + c * (One \div 16) + e :
        p \in -MaxPeriods .. MaxPeriods, c \in 0 .. 15, e \in {-1, 0, 1}}

\* one quantum holding x, x + k, -x and -(x + k)
Probe(v, k) ==
    [j \in 0 .. UFXR_QUANTUM - 1 |->
        CASE j = 0 -> Fx(v)
          [] j = 1 -> Fx(v + k * One)
          [] j = 2 -> FNeg(Fx(v))
          [] OTHER -> FNeg(Fx(v + k * One))]

ProbeArrays ==
    {Probe(v, k) : v \in Samples, k \in (-MaxShift .. MaxShift) \ {0}}
    \cup {[j \in 0 .. UFXR_QUANTUM - 1 |-> TestVec[j + 1]]}

-----------------------------------------------------------------------------
(* The state machine *)

InitWith(arrays) ==
    /\ sse2 \in BOOLEAN
    /\ ndebug \in BOOLEAN
    /\ HAVE_FUNC = 0
    /\ defs = <<>>
    /\ pc = "cpp6"
    /\ xs \in arrays
    /\ outs = [j \in DOMAIN xs |-> Uninit]
    /\ base = 0
    /\ n = 0
    /\ i = 0
    /\ red = [j \in DOMAIN xs |-> Uninit]
    /\ fold = [j \in DOMAIN xs |-> Uninit]
    /\ wcount = [j \in DOMAIN xs |-> 0]
    /\ oob = FALSE
    /\ ret = FALSE
    /\ covered = {}

Init == InitWith(PatternArrays)

InitFn == InitWith(ProbeArrays)

\* #if !HAVE_FUNC && __SSE2__  (line 6)
Line6Cond == HAVE_FUNC = 0 /\ sse2

\* mutant of Line24Cond: the scalar block compiled unconditionally
Line24CondAlways == TRUE

\* #if !HAVE_FUNC  (line 24)
Line24Cond == HAVE_FUNC = 0

\* lines 6..21: the SSE2 block
Cpp6 ==
    /\ pc = "cpp6"
    /\ IF Line6Cond
       THEN /\ HAVE_FUNC' = 1
            /\ defs' = Append(defs, "sse2")
       ELSE UNCHANGED <<HAVE_FUNC, defs>>
    /\ pc' = "cpp24"
    /\ UNCHANGED <<sse2, ndebug, xs, outs, base, n, i, red, fold, wcount, oob,
                   ret, covered>>

\* lines 24..40: the scalar block; then the program links when ufxr_sin1_2
\* has exactly one definition
Cpp24 ==
    /\ pc = "cpp24"
    /\ defs' = IF Line24Cond THEN Append(defs, "scalar") ELSE defs
    /\ pc' = IF Len(defs') = 1 THEN "idle" ELSE "linkerr"
    /\ UNCHANGED <<sse2, ndebug, HAVE_FUNC, xs, outs, base, n, i, red, fold,
                   wcount, oob, ret, covered>>

Window(b, nn) == b .. b + nn - 1

\* the caller invokes ufxr_sin1_2(len, outs + off, xs + off) on a
\* quantum-aligned part of its arrays it has not processed yet
Call(off, len) ==
    /\ pc = "idle"
    /\ off % UFXR_QUANTUM = 0
    /\ Window(off, len) \subseteq DOMAIN xs
    /\ Window(off, len) \cap covered = {}
    /\ base' = off
    /\ n' = len
    /\ i' = 0
    /\ wcount' = [j \in DOMAIN xs |-> 0]
    /\ oob' = FALSE
    /\ ret' = FALSE
    /\ pc' = "assert"
    /\ UNCHANGED <<sse2, ndebug, HAVE_FUNC, defs, xs, outs, red, fold, covered>>

\* line 10 / 27 in a debug build: the assertion fails and the program aborts
AssertFail ==
    /\ pc = "assert"
    /\ ~ndebug
    /\ ~AssertCond(n)
    /\ pc' = "abort"
    /\ UNCHANGED <<sse2, ndebug, HAVE_FUNC, defs, xs, outs, base, n, i, red,
                   fold, wcount, oob, ret, covered>>

\* line 10 / 27: the assertion holds, or is compiled out; the loop starts
AssertPass ==
    /\ pc = "assert"
    /\ ndebug \/ AssertCond(n)
    /\ i' = 0
    /\ pc' = "loop"
    /\ UNCHANGED <<sse2, ndebug, HAVE_FUNC, defs, xs, outs, base, n, red, fold,
                   wcount, oob, ret, covered>>

\* the effect of one iteration of the loop on the arrays and on i
IterStep(impl) ==
    /\ LET t == Touched(impl, base, i)
       IN  /\ outs' = IterOuts(impl, outs, xs, base, i)
           /\ red' = [j \in DOMAIN red |->
                        IF j \in t THEN Kernel(impl, xs[j]).red ELSE red[j]]
           /\ fold' = [j \in DOMAIN fold |->
                        IF j \in t THEN Kernel(impl, xs[j]).fold ELSE fold[j]]
           /\ wcount' = [j \in DOMAIN wcount |->
                        IF j \in t THEN wcount[j] + 1 ELSE wcount[j]]
           /\ oob' = (oob \/ ~(t \subseteq Window(base, n)))
    /\ i' = i + Stride(impl)

\* lines 14..19: one iteration of the SSE2 loop
SseIter ==
    /\ pc = "loop"
    /\ defs[1] = "sse2"
    /\ i < n
    /\ IterStep("sse2")
    /\ UNCHANGED <<sse2, ndebug, HAVE_FUNC, defs, pc, xs, base, n, ret, covered>>

\* lines 28..38: one iteration of the scalar loop
ScalarIter ==
    /\ pc = "loop"
    /\ defs[1] = "scalar"
    /\ i < n
    /\ IterStep("scalar")
    /\ UNCHANGED <<sse2, ndebug, HAVE_FUNC, defs, pc, xs, base, n, ret, covered>>

\* the loop condition i < n fails: the function returns
Return ==
    /\ pc = "loop"
    /\ ~(i < n)
    /\ pc' = "idle"
    /\ ret' = TRUE
    /\ covered' = covered \cup Window(base, n)
    /\ UNCHANGED <<sse2, ndebug, HAVE_FUNC, defs, xs, outs, base, n, i, red,
                   fold, wcount, oob>>

Next ==
    \/ Cpp6
    \/ Cpp24
    \/ \E off \in DOMAIN xs, len \in 0 .. Cardinality(DOMAIN xs) : Call(off, len)
    \/ AssertFail
    \/ AssertPass
    \/ SseIter
    \/ ScalarIter
    \/ Return

Spec == Init /\ [][Next]_vars

\* the same program on the sampled inputs
SpecFn == InitFn /\ [][Next]_vars

-----------------------------------------------------------------------------
(* Vocabulary of the properties *)

\* the definition of ufxr_sin1_2 the program was linked with, and the other one
Impl == defs[1]

OtherImpl == IF Impl = "sse2" THEN "scalar" ELSE "sse2"

Built == pc \notin {"cpp6", "cpp24", "linkerr"}

Returned == pc = "idle" /\ ret

Written(j) == outs[j] # Uninit

\* |a - b| <= 1e-6, in exact arithmetic
WithinTol(a, b) ==
    LET e == AlignExp(a, b)
        d == Abs(Scaled(a, e) - Scaled(b, e))
    IN  d = 0 \/ (e < 0 /\ d <= Pow2(-e) \div (10^6))

\* |a|
Mag(a) == [a EXCEPT !.sign = 0]

\* the float is an integer
IsInteger(a) == a.exp >= 0

\* z is an integer nearest to a (either one when a is halfway between two)
IsNearest(a, z) ==
    LET e == Min(a.exp, 0)
        v == Scaled(a, e)
        u == Pow2(-e)
    IN  2 * Abs(v - z * u) <= u

\* the nearest integer to a, ties toward minus infinity: a - Nearest(a) lies
\* in (-0.5, 0.5]
Nearest(a) ==
    LET e == Min(a.exp, 0)
        v == Scaled(a, e)
        u == Pow2(-e)
        fl == v \div u
    IN  IF 2 * (v - fl * u) <= u THEN fl ELSE fl + 1

\* x' = x - nearest integer, and the reference formula x' * (8 - 16 * |x'|)
RefReduce(a) == FSub(a, IntToFloat(Nearest(a)))

RefSin(a) ==
    LET xp == RefReduce(a)
    IN  FMul(xp, FSub(IntToFloat(8), FMul(IntToFloat(16), Mag(xp))))

TestArr == [j \in 0 .. UFXR_QUANTUM - 1 |-> TestVec[j + 1]]

AllUninit == [j \in DOMAIN xs |-> Uninit]

-----------------------------------------------------------------------------
(* Properties *)

\* C1: every output element the linked implementation stores agrees with the
\* output of the other implementation for the same input within 1e-6.
CrossImplWithinTol ==
    Built =>
        \A j \in DOMAIN outs :
            Written(j) => WithinTol(outs[j], Kernel(OtherImpl, xs[j]).out)

\* a whole quantum returned by the SSE2 build, with a negative input more than
\* a period from zero whose product was rounded
CrossImplWitness ==
    /\ Returned /\ n = UFXR_QUANTUM /\ Impl = "sse2"
    /\ \E j \in Window(base, n) :
          /\ xs[j].sign = 1 /\ FLt(xs[j], IntToFloat(-1))
          /\ xs[j].exp = -FracBits
          /\ outs[j].man # 0

\* C2: when a call returns, every element of its output buffer equals
\* x' * (8 - 16 * |x'|) for x' = xs[i] minus the nearest integer, and the batch
\* [0.0, 0.25, 0.5, -0.25] has given [0.0, 1.0, 0.0, -1.0].
PostconditionReference ==
    Returned =>
        /\ \A j \in Window(base, n) : Written(j) /\ FEq(outs[j], RefSin(xs[j]))
        /\ (xs = TestArr /\ n = UFXR_QUANTUM) =>
              /\ FEq(outs[0], IntToFloat(0))
              /\ FEq(outs[1], IntToFloat(1))
              /\ FEq(outs[2], IntToFloat(0))
              /\ FEq(outs[3], IntToFloat(-1))

\* the scalar build has returned from the call on the scenario's batch
PostconditionWitness ==
    /\ Returned /\ n = UFXR_QUANTUM /\ Impl = "scalar" /\ xs = TestArr
    /\ outs[1] = IntToFloat(1) /\ outs[3] = IntToFloat(-1)

\* C3 as claimed: in every implementation the value after the phase-reduction
\* subtraction equals x minus the nearest integer and lies in (-0.5, 0.5].
PhaseReductionNearest ==
    \A j \in DOMAIN red :
        red[j] # Uninit =>
            /\ IsInteger(FSub(xs[j], red[j]))
            /\ IsNearest(xs[j], Scaled(FSub(xs[j], red[j]), 0))
            /\ FLt(NegHalf, red[j]) /\ FLe(red[j], Half)

\* C3 as amended: the value after the phase-reduction subtraction is x minus
\* an integer; in the SSE2 version that integer is a nearest integer to x, the
\* even one at a tie, and the value lies in [-0.5, 0.5]; in the scalar version
\* it is x truncated toward zero, and the value lies in (-1, 1) and is zero or
\* has the sign of x.
PhaseReductionPerImpl ==
    Built =>
        \A j \in DOMAIN red :
            red[j] # Uninit =>
                LET z == FSub(xs[j], red[j])
                IN  /\ IsInteger(z)
                    /\ Impl = "sse2" =>
                          /\ IsNearest(xs[j], Scaled(z, 0))
                          /\ FLe(NegHalf, red[j]) /\ FLe(red[j], Half)
                          /\ Mag(red[j]) = Half => Scaled(z, 0) % 2 = 0
                    /\ Impl = "scalar" =>
                          /\ FLe(Mag(z), Mag(xs[j]))
                          /\ FLt(Mag(red[j]), IntToFloat(1))
                          /\ red[j].man = 0 \/ red[j].sign = xs[j].sign

\* the SSE2 version reduced 1.5 to -0.5, the scalar version 0.75 to itself
PhaseReductionWitness ==
    /\ Built
    /\ \E j \in DOMAIN red :
          \/ Impl = "sse2" /\ xs[j] = Fx(3 * (One \div 2)) /\ red[j] = NegHalf
          \/ Impl = "scalar" /\ xs[j] = Fx(3 * (One \div 4)) /\ red[j] = xs[j]

\* C4 as claimed: inputs that differ by an integer give bit-identical outputs.
PeriodicityBitIdentical ==
    \A a, b \in DOMAIN outs :
        (Written(a) /\ Written(b) /\ IsInteger(FSub(xs[a], xs[b])))
            => outs[a] = outs[b]

\* C4 as amended: inputs that differ by an integer give outputs that compare
\* equal, and that are bit-identical unless they are zero (the sign of a zero
\* output may differ).
PeriodicityEqual ==
    \A a, b \in DOMAIN outs :
        (Written(a) /\ Written(b) /\ IsInteger(FSub(xs[a], xs[b])))
            => /\ FEq(outs[a], outs[b])
               /\ outs[a].man # 0 => outs[a] = outs[b]

\* x and x + k with k # 0 were both processed: across zero with a non-zero
\* output, or at a half-integer
PeriodicityWitness ==
    \E a, b \in DOMAIN outs :
        /\ Written(a) /\ Written(b) /\ xs[a] # xs[b]
        /\ IsInteger(FSub(xs[a], xs[b]))
        /\ \/ xs[a].sign = 1 /\ xs[b].sign = 0 /\ outs[a].man # 0
           \/ Mag(RefReduce(xs[a])) = Half

\* the phase-reduced magnitude of a is at the interval boundary 0.5
AtBoundary(a) == Mag(RefReduce(a)) = Half

\* C5: away from the interval boundary, the output for -x equals the negation
\* of the output for x.
OddSymmetry ==
    \A a, b \in DOMAIN outs :
        (Written(a) /\ Written(b) /\ xs[b] = FNeg(xs[a]) /\ ~AtBoundary(xs[a]))
            => FEq(outs[b], FNeg(outs[a]))

\* x and -x were both processed, x not a multiple of 0.5, output non-zero
OddSymmetryWitness ==
    \E a, b \in DOMAIN outs :
        /\ Written(a) /\ Written(b) /\ xs[b] = FNeg(xs[a])
        /\ ~AtBoundary(xs[a]) /\ outs[a].man # 0 /\ outs[b] = FNeg(outs[a])
        /\ FLt(IntToFloat(1), xs[a])

\* C6: the magnitude of every output is at most 1.0, and in the scalar version
\* the value fed to the shaping formula lies in [-0.5, 0.5].
Boundedness ==
    Built =>
        \A j \in DOMAIN outs :
            Written(j) =>
                /\ FLe(Mag(outs[j]), IntToFloat(1))
                /\ Impl = "scalar" =>
                      (fold[j] # Uninit /\ FLe(Mag(fold[j]), Half))

\* the scalar version reached the peak 1.0 after folding an input from
\* outside [-0.5, 0.5]
BoundednessWitness ==
    /\ Built /\ Impl = "scalar"
    /\ \E j \in DOMAIN outs :
          /\ Written(j) /\ Mag(outs[j]) = IntToFloat(1)
          /\ FLt(Half, Mag(xs[j])) /\ fold[j] # red[j]

\* C7: once calls on quantum-aligned sub-batches, in any order, have covered
\* the caller's arrays, the output array equals the one a single call over
\* the whole arrays produces, and each element is the kernel's result for the
\* input at the same index.
BatchingInvariance ==
    (pc = "idle" /\ covered = DOMAIN xs) =>
        /\ outs = RunLoop(Impl, AllUninit, xs, 0, Cardinality(DOMAIN xs), 0)
        /\ \A j \in DOMAIN outs : outs[j] = Kernel(Impl, xs[j]).out

\* two quanta were processed by two calls, the second quantum first
BatchingWitness ==
    /\ Returned /\ covered = DOMAIN xs
    /\ Cardinality(DOMAIN xs) = 2 * UFXR_QUANTUM
    /\ base = 0 /\ n = UFXR_QUANTUM
    /\ xs[0] # xs[UFXR_QUANTUM]

\* C8: once the file is preprocessed, exactly one definition of ufxr_sin1_2
\* is compiled: the SSE2 one when __SSE2__ is set, the scalar one otherwise.
BuildSelection ==
    pc \notin {"cpp6", "cpp24"} =>
        /\ Len(defs) = 1
        /\ defs[1] = (IF sse2 THEN "sse2" ELSE "scalar")

\* an SSE2 build after line 24, which skipped the scalar block
BuildSelectionWitness ==
    pc = "idle" /\ sse2 /\ HAVE_FUNC = 1 /\ defs = <<"sse2">>

\* in a debug build: an aborted call has stored nothing, a running call has
\* stayed inside its buffers and stored no element twice, and a returned call
\* had a length that is a multiple of the quantum, has run its loop to i = n
\* and has stored every element of its output buffer exactly once and
\* nothing else
DebugCallState ==
    ~ndebug =>
        /\ pc = "abort" =>
              (~AssertCond(n) /\ \A j \in DOMAIN wcount : wcount[j] = 0)
        /\ pc = "loop" =>
              (i <= n /\ ~oob /\ \A j \in DOMAIN wcount : wcount[j] <= 1)
        /\ Returned =>
              /\ AssertCond(n)
              /\ i = n
              /\ ~oob
              /\ \A j \in DOMAIN wcount :
                    /\ wcount[j] = (IF j \in Window(base, n) THEN 1 ELSE 0)
                    /\ j \in Window(base, n) => Written(j)

\* in a debug build every iteration of the loop moves i up, and not beyond n:
\* the loop ends after at most n iterations
DebugLoopAdvances ==
    (~ndebug /\ pc = "loop" /\ pc' = "loop") => (i < i' /\ i' <= n)

\* C9: in a debug build a call either fails its assertion, n not being a
\* multiple of the quantum, before it stores anything, or terminates having
\* stored every element of outs exactly once; it leaves xs unchanged and
\* touches no index outside its buffers.
CallAtomicInDebug ==
    /\ []DebugCallState
    /\ [][xs' = xs]_vars
    /\ [][DebugLoopAdvances]_vars

\* a debug SSE2 build has returned from a call on two quanta
CallAtomicWitness ==
    /\ ~ndebug /\ Returned /\ Impl = "sse2" /\ n = 2 * UFXR_QUANTUM
    /\ \A j \in Window(base, n) : wcount[j] = 1

\* a debug build aborted a call whose length is no multiple of the quantum
CallAbortWitness ==
    ~ndebug /\ pc = "abort" /\ n % UFXR_QUANTUM # 0

\* C10: in every built program the error codes are exactly three pairwise
\* distinct values, ERR_OK, ERR_NOMEM and ERR_LARGETEXT; ERR_OK is 0 and the
\* failure codes are not.
ErrorCodesClosed ==
    Built =>
        /\ Len(ErrEnum) = 3
        /\ {EnumValueAt(k) : k \in 1 .. Len(ErrEnum)} = {ERR_OK, ERR_NOMEM, ERR_LARGETEXT}
        /\ Cardinality({ERR_OK, ERR_NOMEM, ERR_LARGETEXT}) = 3
        /\ ERR_OK = 0
        /\ ERR_NOMEM # 0
        /\ ERR_LARGETEXT # 0

\* a linked program, in which the three codes are 0, 1 and 2
ErrorCodesWitness ==
    Built /\ pc = "idle" /\ <<ERR_OK, ERR_NOMEM, ERR_LARGETEXT>> = <<0, 1, 2>>

=============================================================================
